---- MODULE Spec2Model ----
(***************************************************************************)
(* Cageify: a content script that replaces the source of every image of a  *)
(* page by a randomly picked URL, first in one sweep over the document and  *)
(* then for every node the page adds, through a MutationObserver.           *)
(*                                                                          *)
(* The repository holds the script twice: src/cagify/src/content.ts (the    *)
(* function-based script, variant "content") and src/unnamed/part_000 (the  *)
(* class-based script, variant "class").  The variable `variant` says which *)
(* of the two runs in the page.                                             *)
(***************************************************************************)
EXTENDS Integers, Sequences, FiniteSets, TLC

(***************************************************************************)
(* Bounds of the model.                                                     *)
(***************************************************************************)
\* how many DOM mutations (appendChild / removeChild) the host page performs
MaxHostOps == 2
\* Math.random() is r / RandRes for r in 0 .. RandRes - 1
RandRes == 2
\* longest configuration list handed to the Cageify constructor
MaxUrls == 2
\* longest batch the callback is tried on directly
MaxBatch == 2

(***************************************************************************)
(* Strings are sequences of characters, so that startsWith and length are   *)
(* computed and not assumed.                                                *)
(***************************************************************************)
Https == <<"h", "t", "t", "p", "s", ":", "/", "/">>
UrlA == Https \o <<"a">>
UrlB == Https \o <<"b">>
UrlHttp == <<"h", "t", "t", "p", ":", "/", "/", "c">>
EmptyString == <<>>
\* what an out-of-range array read yields, as the DOM stores it in a field
Undefined == <<"undefined">>
\* the address an image of the host page carries before the script touches it
OrigSrc == <<"o", ".", "p", "n", "g">>
OrigSrcset == <<"o", "2", "x">>
\* a field of a node that is not an image
OwnField == <<"d">>

Range(s) == {s[k] : k \in 1..Len(s)}

RECURSIVE Flatten(_)
Flatten(ss) == IF ss = <<>> THEN <<>> ELSE Head(ss) \o Flatten(Tail(ss))

startsWith(s, prefix) ==
    /\ Len(s) >= Len(prefix)
    /\ SubSeq(s, 1, Len(prefix)) = prefix

(***************************************************************************)
(* The DOM.  Body is document.body, the observed root; the other nodes are  *)
(* the page's: a container, two images and a text node.                     *)
(***************************************************************************)
Body == 0
ELEMENT_NODE == 1
TEXT_NODE == 3
Nodes == {1, 2, 3, 4}

nodeName(n) ==
    CASE n = 1 -> "DIV"
      [] n \in {2, 3} -> "IMG"
      [] OTHER -> "#text"

nodeType(n) == IF nodeName(n) = "#text" THEN TEXT_NODE ELSE ELEMENT_NODE

Images == {n \in Nodes : nodeName(n) = "IMG"}
\* the nodes the host page appends to, besides Body
Containers == {n \in Nodes : nodeName(n) = "DIV"}

VARIABLES
    variant,     \* "content" (content.ts) or "class" (part_000)
    CAGE_URLS,   \* the replacement list
    children,    \* the DOM tree: node or Body -> sequence of child nodes
    src,         \* node -> its source field
    srcset,      \* node -> its source-set field
    pc,          \* where the script is: "loading", "sweep", "observing", "failed"
    i,           \* the sweep loop's index
    images,      \* the image collection the sweep enumerates
    registered,  \* observer.observe(document.body, ...) has been called
    queue,       \* the observer's record queue: records not yet delivered
    hostOps,     \* DOM mutations the host page has performed
    assertions,  \* messages console.assert has logged
    sweeps,      \* how many times the sweep has been started
    picked,      \* the value of the last getRandomCageUrl() call
    last,        \* the last step taken
    batch,       \* the batch the last callback was given
    calls,       \* the nodes the last callback dispatched on, in order
    writes,      \* the images the last step replaced, in order
    frozen,      \* the images whose source field cannot be assigned
    errors,      \* the errors raised so far: where, on which node, caught or not
    threw,       \* the node on which the last step raised an error, if any
    visited      \* the images the sweep loop has reached, in order

vars == <<variant, CAGE_URLS, children, src, srcset, pc, i, images, registered,
          queue, hostOps, assertions, sweeps, picked, last, batch, calls, writes,
          frozen, errors, threw, visited>>

dom == <<children, src, srcset>>
script == <<pc, i, images, registered, assertions, sweeps>>
log == <<batch, calls, writes, threw>>

(***************************************************************************)
(* DOM queries.                                                             *)
(***************************************************************************)
Parents(n) == {p \in Nodes \cup {Body} : n \in Range(children[p])}

\* the descendants of the nodes of `kids`, themselves included, in document
\* (pre-)order
RECURSIVE PreOrder(_)
PreOrder(kids) ==
    IF kids = <<>> THEN <<>>
    ELSE <<Head(kids)>> \o PreOrder(children[Head(kids)]) \o PreOrder(Tail(kids))

Descendants(p) == PreOrder(children[p])

IsImg(n) == nodeName(n) = "IMG"

\* (mutant) only the image children, as ":scope > img" would select
querySelectorChildren(element) == SelectSeq(children[element], IsImg)

\* (mutant) the search is made from the document, not from the element
querySelectorAllDocument(element) == SelectSeq(Descendants(Body), IsImg)

\* element.querySelectorAll("img"): the image descendants, the element
\* itself never among them
querySelectorAll(element) == SelectSeq(Descendants(element), IsImg)

\* document.getElementsByTagName("img")
getElementsByTagName == SelectSeq(Descendants(Body), IsImg)

InBody(p) == p = Body \/ p \in Range(Descendants(Body))

Remove(s, n) == SelectSeq(s, LAMBDA x : x # n)

(***************************************************************************)
(* The MutationObserver.                                                    *)
(***************************************************************************)
\* (mutant) the observer also asks for attribute changes
ObserverConfigAttributes == [childList |-> TRUE, subtree |-> TRUE, attributes |-> TRUE]

\* the options handed to observe(); attributes is not asked for
ObserverConfig == [childList |-> TRUE, subtree |-> TRUE, attributes |-> FALSE]

Record(type, target, added, removed) ==
    [type |-> type, target |-> target, addedNodes |-> added, removedNodes |-> removed]

\* whether the observer, once registered on Body, queues this record; the
\* tree is the one in which the mutation happens
Observes(rec) ==
    /\ registered
    /\ ObserverConfig[rec.type]
    /\ \/ rec.target = Body
       \/ ObserverConfig.subtree /\ InBody(rec.target)

Enqueue(q, recs) == q \o SelectSeq(recs, Observes)

(***************************************************************************)
(* The replacement list.                                                    *)
(***************************************************************************)
\* arr[index] of JavaScript, index counted from 0
At(arr, index) == IF index \in 0..(Len(arr) - 1) THEN arr[index + 1] ELSE Undefined

\* (mutant) Math.ceil in the place of Math.floor
randomIndexCeil(r) == (r * Len(CAGE_URLS) + RandRes - 1) \div RandRes

\* Math.floor(Math.random() * CAGE_URLS.length), Math.random() = r / RandRes
randomIndex(r) == (r * Len(CAGE_URLS)) \div RandRes

getRandomCageUrl(r) == At(CAGE_URLS, randomIndex(r))

Draws == 0..(RandRes - 1)

\* the messages console.assert logs; console.assert never throws
checkRepContent ==
    {m \in {"RI Fail: CAGE_URLS is empty."} : ~(Len(CAGE_URLS) > 0)}
    \cup {m \in {"RI Fail: Invalid URL entry"} :
            \E k \in 1..Len(CAGE_URLS) : ~(Len(CAGE_URLS[k]) > 0)}

checkRepClass ==
    {m \in {"CAGE_URLS must not be empty"} : ~(Len(CAGE_URLS) # 0)}
    \cup {m \in {"CAGE_URLS must not contain empty strings"} :
            \E k \in 1..Len(CAGE_URLS) : ~(Len(CAGE_URLS[k]) # 0)}
    \cup {m \in {"CAGE_URLS must contain valid urls"} :
            \E k \in 1..Len(CAGE_URLS) : ~startsWith(CAGE_URLS[k], Https)}

checkRep == IF variant = "content" THEN checkRepContent ELSE checkRepClass

(***************************************************************************)
(* The replacer.                                                            *)
(***************************************************************************)
\* the fields one replacement assigns.  content.ts: cageifyImage assigns src
\* and clears srcset, the sweep loop assigns src alone; part_000:
\* replaceImage assigns src alone, in the sweep and in the callback
FieldsWritten(inCallback) ==
    IF variant = "content" /\ inCallback THEN <<"src", "srcset">> ELSE <<"src">>

\* (mutant) the node itself is never taken for an image
processNodeDescendantsOnly(node) ==
    IF nodeType(node) = ELEMENT_NODE THEN querySelectorAll(node) ELSE <<>>

\* (mutant) whatever is no container is handed to cageifyImage
processNodeAnyNode(node) ==
    IF nodeType(node) = ELEMENT_NODE /\ nodeName(node) # "IMG"
    THEN querySelectorAll(node)
    ELSE <<node>>

\* content.ts processNode: the images it hands to cageifyImage, in order
processNode(node) ==
    IF nodeName(node) = "IMG" THEN <<node>>
    ELSE IF nodeType(node) = ELEMENT_NODE THEN querySelectorAll(node)
    ELSE <<>>

\* part_000, the body of the callback's inner loop: the images it hands to
\* replaceImage, in order
callbackNode(node) ==
    (IF nodeName(node) = "IMG" THEN <<node>> ELSE <<>>)
    \o (IF nodeType(node) = ELEMENT_NODE THEN querySelectorAll(node) ELSE <<>>)

\* (mutant) the removed nodes are dispatched on as well
DispatchedNodesRemovedToo(record) == record.addedNodes \o record.removedNodes

\* the nodes of one record the callback dispatches on
DispatchedNodes(record) ==
    IF variant = "content"
    THEN (IF record.type = "childList" THEN record.addedNodes ELSE <<>>)
    ELSE record.addedNodes

\* (mutant) the callback reads the first record of the batch alone
observerCallbackFirstRecord(mutationsList) ==
    IF mutationsList = <<>> THEN <<>>
    ELSE IF variant = "content" /\ mutationsList[1].type # "childList" THEN <<>>
    ELSE mutationsList[1].addedNodes

\* the nodes a callback dispatches on for a batch, in order
observerCallback(mutationsList) ==
    Flatten([k \in 1..Len(mutationsList) |-> DispatchedNodes(mutationsList[k])])

\* the images a callback replaces for a batch, in order (with repetitions)
Replaced(nodes) ==
    Flatten([k \in 1..Len(nodes) |->
        IF variant = "content" THEN processNode(nodes[k]) ELSE callbackNode(nodes[k])])

\* one draw of Math.random() for each image of W
DrawsFor(W) == [Range(W) -> Draws]

\* the source fields after img.src = getRandomCageUrl() for each image of W in
\* turn: rs[n] is the draw of the last replacement of n, which overwrites what
\* the earlier replacements of n assigned
AssignSrc(f, W, rs) ==
    [n \in Nodes |-> IF n \in Range(W) THEN getRandomCageUrl(rs[n]) ELSE f[n]]

\* the source-set fields after the replacements of W
AssignSrcset(f, W, inCallback) ==
    IF "srcset" \in Range(FieldsWritten(inCallback))
    THEN [n \in Nodes |-> IF n \in Range(W) THEN EmptyString ELSE f[n]]
    ELSE f

\* the attribute mutations the replacements of W perform, as the records an
\* observer that asked for attributes would be given
AttributeRecords(W, inCallback) ==
    Flatten([k \in 1..Len(W) |->
        [j \in 1..Len(FieldsWritten(inCallback)) |->
            Record("attributes", W[k], <<>>, <<>>)]])

(***************************************************************************)
(* Errors.  An assignment to the source field of an image of `frozen`       *)
(* raises a TypeError: the page has made the field read-only.  Nothing else *)
(* in the two scripts raises: console.assert logs and returns.              *)
(***************************************************************************)
\* whether an error raised in `where` reaches a catch clause.  content.ts
\* wraps the rep check, the sweep and observe() in one try; the callback runs
\* later, from the observer, outside of it.  part_000 has no try at all
Catches(where) == variant = "content" /\ where = "sweep"

Error(where, node) == [in |-> where, node |-> node, caught |-> Catches(where)]

\* (mutant) the error is caught inside the loop, which goes on
AfterSweepErrorResume == "sweep"

\* where the script is after an error in the sweep: content.ts is in its
\* catch clause, past observe(); part_000 has been ended by the error
AfterSweepError == "failed"

\* the index in W of the first image whose assignment raises, 0 if none does
FirstFrozen(W) ==
    IF frozen = {} THEN 0
    ELSE IF \E k \in 1..Len(W) : W[k] \in frozen
    THEN CHOOSE k \in 1..Len(W) :
           W[k] \in frozen /\ \A j \in 1..(k - 1) : W[j] \notin frozen
    ELSE 0

\* the replacements of W that are performed: those before the first error
Completed(W) == IF FirstFrozen(W) = 0 THEN W ELSE SubSeq(W, 1, FirstFrozen(W) - 1)

\* the image whose assignment raised, if one did
Thrower(W) == IF FirstFrozen(W) = 0 THEN <<>> ELSE <<W[FirstFrozen(W)]>>

\* the nodes a callback gets to dispatch on: the error leaves forEach, the
\* loop over the records and the callback, so the nodes after the one whose
\* processing raised are not reached
Dispatched(nodes) ==
    SubSeq(nodes, 1,
        Cardinality({k \in 1..Len(nodes) :
            FirstFrozen(Replaced(SubSeq(nodes, 1, k - 1))) = 0}))

\* (mutant) a callback that raised disconnects the observer
ObserverDisconnectedOnThrow(raised) == registered /\ raised = <<>>

\* whether the observer is registered after a callback: neither script ever
\* calls disconnect(), and an error in a callback does not unregister it
ObserverAfterCallback(raised) == registered

(***************************************************************************)
(* The host page: it has built the DOM the script is loaded in, and changes *)
(* it between the script's tasks, never during one.                         *)
(***************************************************************************)
HostRuns == pc \in {"observing", "failed"} /\ hostOps < MaxHostOps

\* parent.appendChild(n): n leaves its old parent, if any, and becomes the
\* last child of parent
AppendChild(parent, n) ==
    /\ HostRuns
    /\ parent # n
    /\ parent \notin Range(Descendants(n))
    /\ LET detach == [p \in Nodes \cup {Body} |-> Remove(children[p], n)]
           removals == [p \in Parents(n) |-> Record("childList", p, <<>>, <<n>>)]
           olds == IF Parents(n) = {} THEN <<>>
                   ELSE <<removals[CHOOSE p \in Parents(n) : TRUE]>>
       IN  /\ children' = [detach EXCEPT ![parent] = Append(@, n)]
           /\ queue' = Enqueue(queue, olds \o <<Record("childList", parent, <<n>>, <<>>)>>)
    /\ hostOps' = hostOps + 1
    /\ last' = "appendChild"
    /\ batch' = <<>> /\ calls' = <<>> /\ writes' = <<>> /\ threw' = <<>>
    /\ UNCHANGED <<variant, CAGE_URLS, src, srcset, script, picked, frozen, errors,
                   visited>>

\* n.remove()
RemoveChild(n) ==
    /\ HostRuns
    /\ Parents(n) # {}
    /\ LET p == CHOOSE q \in Parents(n) : TRUE
       IN  /\ children' = [children EXCEPT ![p] = Remove(@, n)]
           /\ queue' = Enqueue(queue, <<Record("childList", p, <<>>, <<n>>)>>)
    /\ hostOps' = hostOps + 1
    /\ last' = "removeChild"
    /\ batch' = <<>> /\ calls' = <<>> /\ writes' = <<>> /\ threw' = <<>>
    /\ UNCHANGED <<variant, CAGE_URLS, src, srcset, script, picked, frozen, errors,
                   visited>>

(***************************************************************************)
(* The script.                                                              *)
(***************************************************************************)
\* the script starts: the rep check, then the image collection is taken
Activate ==
    /\ pc = "loading"
    /\ assertions' = checkRep
    /\ images' = getElementsByTagName
    /\ i' = 0
    /\ sweeps' = sweeps + 1
    /\ pc' = "sweep"
    /\ last' = "activate"
    /\ visited' = <<>>
    /\ batch' = <<>> /\ calls' = <<>> /\ writes' = <<>> /\ threw' = <<>>
    /\ UNCHANGED <<variant, CAGE_URLS, dom, registered, queue, hostOps, picked,
                   frozen, errors>>

\* (mutant) the loop starts at the second image
SweepListFromOne ==
    LET all == IF variant = "content" THEN getElementsByTagName ELSE images
    IN  IF all = <<>> THEN <<>> ELSE Tail(all)

\* (mutant) the loop runs from the last index down
SweepListReversed ==
    LET all == IF variant = "content" THEN getElementsByTagName ELSE images
    IN  [k \in 1..Len(all) |-> all[Len(all) + 1 - k]]

\* the collection the sweep indexes: content.ts reads the live collection,
\* part_000 the array Object.values made of it
SweepList == IF variant = "content" THEN getElementsByTagName ELSE images

\* the image the sweep loop is about to reach
SweepImg == SweepList[i + 1]

\* one turn of the sweep loop: the assignment to img.src, or the error it
\* raises, which ends the loop and the script
SweepStep ==
    /\ pc = "sweep"
    /\ i < Len(SweepList)
    /\ visited' = Append(visited, SweepImg)
    /\ threw' = Thrower(<<SweepImg>>)
    /\ writes' = Completed(<<SweepImg>>)
    /\ errors' = errors \o [k \in 1..Len(threw') |-> Error("sweep", threw'[k])]
    /\ pc' = IF threw' = <<>> THEN pc ELSE AfterSweepError
    /\ \E rs \in DrawsFor(writes') : src' = AssignSrc(src, writes', rs)
    /\ srcset' = AssignSrcset(srcset, writes', FALSE)
    /\ queue' = Enqueue(queue, AttributeRecords(writes', FALSE))
    /\ i' = i + 1
    /\ last' = "sweep"
    /\ batch' = <<>> /\ calls' = <<>>
    /\ UNCHANGED <<variant, CAGE_URLS, children, images, registered, hostOps,
                   assertions, sweeps, picked, frozen>>

\* (mutant) observe() is called before the loop has ended
ReachesObserveEarly == pc = "sweep"

\* whether the script has reached observer.observe(document.body, ...)
ReachesObserve == pc = "sweep" /\ i >= Len(SweepList)

\* new MutationObserver(callback).observe(document.body, config)
Observe ==
    /\ ReachesObserve
    /\ registered' = TRUE
    /\ pc' = "observing"
    /\ last' = "observe"
    /\ batch' = <<>> /\ calls' = <<>> /\ writes' = <<>> /\ threw' = <<>>
    /\ UNCHANGED <<variant, CAGE_URLS, dom, i, images, queue, hostOps, assertions,
                   sweeps, picked, frozen, errors, visited>>

\* one run of the callback on mutationsList, to its end or to the first
\* assignment that raises an error
RunCallback(mutationsList) ==
    /\ batch' = mutationsList
    /\ calls' = Dispatched(observerCallback(mutationsList))
    /\ writes' = Completed(Replaced(calls'))
    /\ threw' = Thrower(Replaced(calls'))
    /\ errors' = errors \o [k \in 1..Len(threw') |-> Error("callback", threw'[k])]
    /\ \E rs \in DrawsFor(writes') : src' = AssignSrc(src, writes', rs)
    /\ srcset' = AssignSrcset(srcset, writes', TRUE)
    /\ queue' = Enqueue(<<>>, AttributeRecords(writes', TRUE))
    /\ registered' = ObserverAfterCallback(threw')
    /\ last' = "deliver"
    /\ UNCHANGED <<variant, CAGE_URLS, children, pc, i, images, assertions, sweeps,
                   hostOps, picked, frozen, visited>>

\* the observer delivers its queue, whole, to the callback
Deliver ==
    /\ pc = "observing"
    /\ registered
    /\ queue # <<>>
    /\ RunCallback(queue)

(***************************************************************************)
(* Specifications.                                                          *)
(***************************************************************************)
\* the list both scripts are written with: distinct https URLs
ConfiguredUrls == <<UrlA, UrlB>>

\* the fields as the host page wrote them: image 2 carries a source set,
\* image 3 none
InitSrc(n) == IF IsImg(n) THEN OrigSrc ELSE OwnField
InitSrcset(n) == IF n = 2 THEN OrigSrcset ELSE IF IsImg(n) THEN EmptyString ELSE OwnField

Tree(ofBody, ofDiv, ofImg) ==
    [p \in Nodes \cup {Body} |->
        CASE p = Body -> ofBody [] p = 1 -> ofDiv [] p = 2 -> ofImg [] OTHER -> <<>>]

\* the pages the script is loaded in, with the detached nodes the host page
\* holds: an empty page; a container with two images, and a text; an image
\* in the page and one in a detached container; a detached container with an
\* image inside an image
Documents ==
    { Tree(<<>>, <<>>, <<>>),
      Tree(<<1, 4>>, <<2, 3>>, <<>>),
      Tree(<<2>>, <<3>>, <<>>),
      Tree(<<>>, <<2>>, <<3>>) }

InitDom ==
    /\ children \in Documents
    /\ src = [n \in Nodes |-> InitSrc(n)]
    /\ srcset = [n \in Nodes |-> InitSrcset(n)]

InitScript ==
    /\ variant \in {"content", "class"}
    /\ pc = "loading"
    /\ i = 0
    /\ images = <<>>
    /\ registered = FALSE
    /\ queue = <<>>
    /\ hostOps = 0
    /\ assertions = {}
    /\ sweeps = 0
    /\ picked = Undefined
    /\ last = "init"
    /\ batch = <<>> /\ calls = <<>> /\ writes = <<>>
    /\ errors = <<>> /\ threw = <<>> /\ visited = <<>>

\* the page leaves every image's fields assignable
Init == InitDom /\ InitScript /\ CAGE_URLS = ConfiguredUrls /\ frozen = {}

Host ==
    \/ \E parent \in Containers \cup {Body}, n \in Nodes : AppendChild(parent, n)
    \/ \E n \in Nodes : RemoveChild(n)

\* the steps of the script and of its callback
Script ==
    \/ Activate
    \/ SweepStep
    \/ Observe
    \/ Deliver

Next ==
    \/ Host
    \/ Script

Spec == Init /\ [][Next]_vars

\* the event loop runs what is pending: the script once the page has loaded
\* it, its synchronous part to its end, and the delivery of a queue that is
\* not empty.  No step of the host page disables a pending step of the script.
FairSpec == Spec /\ WF_vars(Script)

(***************************************************************************)
(* The scripts in a page that has made the source field of one of its       *)
(* images read-only.                                                        *)
(***************************************************************************)
FrozenChoices == {{n} : n \in Images}

InitFailing ==
    InitDom /\ InitScript /\ CAGE_URLS = ConfiguredUrls /\ frozen \in FrozenChoices

SpecFailing == InitFailing /\ [][Next]_vars

(***************************************************************************)
(* The scripts written with another list: an empty one, one holding an      *)
(* empty string, one holding strings that are no https URL.                 *)
(***************************************************************************)
InvalidLists == {<<>>, <<EmptyString>>, <<UrlHttp>>}

InitInvalid == InitDom /\ InitScript /\ CAGE_URLS \in InvalidLists /\ frozen = {}

SpecInvalid == InitInvalid /\ [][Next]_vars

(***************************************************************************)
(* The replacement list alone: construction with any list of at most        *)
(* MaxUrls strings, then calls of getRandomCageUrl.                         *)
(***************************************************************************)
UrlChoices == {UrlA, UrlB, UrlHttp, EmptyString}

Lists == UNION {[1..len -> UrlChoices] : len \in 0..MaxUrls}

Pick ==
    /\ pc # "loading"
    /\ \E r \in Draws : picked' = getRandomCageUrl(r)
    /\ last' = "pick"
    /\ UNCHANGED <<variant, CAGE_URLS, dom, script, queue, hostOps, log, frozen,
                   errors, visited>>

InitPick == InitDom /\ InitScript /\ CAGE_URLS \in Lists /\ frozen = {}

NextPick ==
    \/ Activate
    \/ Pick

SpecPick == InitPick /\ [][NextPick]_vars

(***************************************************************************)
(* The callback alone: the script activates and the callback is run on any  *)
(* batch of well-formed mutation records, among them records of another     *)
(* type than childList, which carry no added node.                          *)
(***************************************************************************)
Records ==
    {Record("childList", Body, <<n>>, <<>>) : n \in {1, 2, 4}}
    \cup {Record("childList", Body, <<2, 1>>, <<>>)}
    \cup {Record("childList", Body, <<>>, <<n>>) : n \in {2}}
    \cup {Record("attributes", n, <<>>, <<>>) : n \in {2}}

Batches == UNION {[1..len -> Records] : len \in 0..MaxBatch}

\* the callback is run once, right after observe()
Invoke ==
    /\ pc = "observing"
    /\ last = "observe"
    /\ \E mutationsList \in Batches : RunCallback(mutationsList)

NextCallback ==
    \/ Activate
    \/ SweepStep
    \/ Observe
    \/ Invoke

SpecCallback == Init /\ [][NextCallback]_vars

(***************************************************************************)
(* Properties.                                                              *)
(***************************************************************************)
\* the list is as section 3 of the specification asks: not empty, of
\* non-empty strings that start with the secure scheme
RepOk(urls) ==
    /\ Len(urls) > 0
    /\ \A k \in 1..Len(urls) : Len(urls[k]) > 0 /\ startsWith(urls[k], Https)

Configured(n) == src[n] \in Range(CAGE_URLS)

Pending(n) == \E k \in 1..Len(queue) : n \in Range(queue[k].addedNodes)

ChildOfBody(n) == n \in Range(children[Body])

C1_Safety ==
    /\ last = "deliver" =>
         \A k \in 1..Len(batch) :
           batch[k].target = Body =>
             \A n \in Range(batch[k].addedNodes) : IsImg(n) => Configured(n)
    /\ registered =>
         \A n \in Images : ChildOfBody(n) => Configured(n) \/ Pending(n)

\* C1: an image that is a direct child of the observed root once the observer
\* is registered has a configured source or is an added node of a queued
\* record; the batch that delivers it leaves it with a configured source; and
\* under fair delivery it does get a configured source.
C1_DirectInsertion ==
    /\ []C1_Safety
    /\ \A n \in Images : (registered /\ ChildOfBody(n)) ~> Configured(n)

\* a batch of one record has delivered a new image, a direct child of Body
\* that the sweep never saw, and its source is now a configured one
C1_Witness ==
    /\ last = "deliver"
    /\ Len(batch) = 1
    /\ batch[1].target = Body
    /\ \E n \in Images :
         /\ batch[1].addedNodes = <<n>>
         /\ n \notin Range(images)
         /\ ChildOfBody(n)
         /\ Configured(n)

IsContainer(n) == nodeType(n) = ELEMENT_NODE /\ ~IsImg(n)

\* C2: when a batch holds an added container, the callback replaces every
\* image below it, at any depth, by a configured source and leaves the
\* container's own fields as they were.
C2_NestedInsertion ==
    last = "deliver" =>
      \A k \in 1..Len(batch) :
        \A c \in Range(batch[k].addedNodes) :
          IsContainer(c) =>
            /\ \A m \in Range(Descendants(c)) :
                 IsImg(m) => Configured(m) /\ m \in Range(writes)
            /\ src[c] = InitSrc(c)
            /\ srcset[c] = InitSrcset(c)

\* a container holding two images the sweep never saw, one of them not its
\* child, was inserted and delivered
C2_Witness ==
    /\ last = "deliver"
    /\ \E k \in 1..Len(batch) :
         \E c \in Range(batch[k].addedNodes) :
           /\ IsContainer(c)
           /\ Len(querySelectorAll(c)) = 2
           /\ \E m \in Range(querySelectorAll(c)) : m \notin Range(children[c])
           /\ \A m \in Range(querySelectorAll(c)) :
                m \notin Range(images) /\ Configured(m)

\* C3: once the sweep has finished, every image that was in the document at
\* activation has a configured source.
C3_InitialCoverage ==
    pc = "observing" => \A n \in Range(images) : Configured(n)

\* the sweep of a document of two images has just finished
C3_Witness ==
    /\ last = "observe"
    /\ Len(images) = 2
    /\ \A n \in Range(images) : Configured(n)

\* C4: every image a step has just replaced, in the sweep or in a callback,
\* has an empty source set.
C4_SrcsetCleared == \A n \in Range(writes) : srcset[n] = EmptyString

C5_Safety ==
    /\ \A k \in 1..Len(queue) : queue[k].type = "childList"
    /\ last \in {"deliver", "sweep"} => queue = <<>>

\* C5: the replacer's own assignments queue no record (a callback leaves the
\* queue empty and the queue never holds an attribute record), and once the
\* host page has stopped changing the tree the queue stays empty for good: no
\* further callback runs.
C5_NoReprocessingLoop ==
    /\ []C5_Safety
    /\ <>[](queue = <<>>)

\* a callback has replaced an image inside the observed tree and the queue
\* is empty
C5_Witness ==
    /\ last = "deliver"
    /\ \E n \in Range(writes) : InBody(n)
    /\ queue = <<>>

\* C6: with a list that breaks the invariant, the check reports a failure and
\* no image field is changed.
C6_InvalidRejected ==
    (~RepOk(CAGE_URLS) /\ pc # "loading") =>
      /\ assertions # {}
      /\ \A n \in Images : src[n] = InitSrc(n) /\ srcset[n] = InitSrcset(n)

OnlyRemovals(b) ==
    /\ b # <<>>
    /\ \A k \in 1..Len(b) : b[k].addedNodes = <<>> /\ b[k].removedNodes # <<>>

\* C7: a callback on a batch whose records carry removed nodes only
\* dispatches on no node, replaces no image and changes no source or
\* source-set field.
C7_RemovalNoOp ==
    [][(last' = "deliver" /\ OnlyRemovals(batch')) =>
          /\ calls' = <<>>
          /\ writes' = <<>>
          /\ src' = src
          /\ srcset' = srcset]_vars

\* the removal of an image, or of a container holding one, was delivered
C7_Witness ==
    /\ last = "deliver"
    /\ OnlyRemovals(batch)
    /\ \E k \in 1..Len(batch) :
         \E n \in Range(batch[k].removedNodes) :
           IsImg(n) \/ querySelectorAll(n) # <<>>

\* C8: with a valid list the rep check logs no failure and every pick, for
\* every draw, is an element of the list.
C8_PickMember ==
    RepOk(CAGE_URLS) =>
      /\ pc # "loading" => assertions = {}
      /\ last = "pick" => picked \in Range(CAGE_URLS)

\* the second of two distinct URLs of a valid list was picked
C8_Witness ==
    /\ RepOk(CAGE_URLS)
    /\ last = "pick"
    /\ Len(CAGE_URLS) = 2
    /\ CAGE_URLS[1] # CAGE_URLS[2]
    /\ picked = CAGE_URLS[2]

\* C9: the sweep is started at most once; the observer is registered only
\* after the sweep has visited every image of its collection; no callback
\* and no queued record exists during the sweep; no sweep step follows the
\* registration.
C9_ActivationOrder ==
    /\ sweeps <= 1
    /\ registered => sweeps = 1 /\ pc = "observing" /\ i = Len(images)
    /\ pc \in {"loading", "sweep"} => ~registered /\ queue = <<>>
    /\ last = "deliver" => registered
    /\ last = "sweep" => ~registered

\* a callback has run after the sweep of a document of two images
C9_Witness ==
    /\ last = "deliver"
    /\ registered
    /\ sweeps = 1
    /\ Len(images) = 2

\* the added nodes of the child-list records of a batch, in order
AddedNodes(b) ==
    Flatten([k \in 1..Len(b) |->
        IF b[k].type = "childList" THEN b[k].addedNodes ELSE <<>>])

NoChildList(b) == \A k \in 1..Len(b) : b[k].type # "childList"

\* C10: a callback dispatches once on each added node of each child-list
\* record of its batch, in order, and on nothing else; on a batch without a
\* child-list record it changes no source and no source-set field.
C10_BatchHandling ==
    [][last' = "deliver" =>
          /\ calls' = AddedNodes(batch')
          /\ NoChildList(batch') => src' = src /\ srcset' = srcset /\ writes' = <<>>]_vars

\* a callback has run on a batch of records none of which is a child-list
\* record, in a document that holds an image
C10_Witness ==
    /\ last = "deliver"
    /\ batch # <<>>
    /\ NoChildList(batch)
    /\ getElementsByTagName # <<>>

\* C11: once the rep check has run, it has logged a failure exactly when the
\* list is empty, holds an empty string, or holds a string that does not
\* start with the secure scheme.
C11_CheckRepExact ==
    pc # "loading" => (assertions # {} <=> ~RepOk(CAGE_URLS))

\* the images a callback on batch b replaces when no assignment raises
Targets(b) == Replaced(observerCallback(b))

\* C12: a callback in which the processing of one node raised an error has
\* still replaced every other image the batch leads to.
C12_FailureIsolation ==
    last = "deliver" =>
      \A n \in Range(Targets(batch)) \ frozen :
        n \in Range(writes) /\ Configured(n)

RaisedIn(where) == \E k \in 1..Len(errors) : errors[k].in = where

C13_Later ==
    /\ registered => pc = "observing"
    /\ (last = "deliver" /\ threw = <<>>) =>
         /\ calls = AddedNodes(batch)
         /\ writes = Targets(batch)
         /\ \A n \in Range(writes) : Configured(n)

\* C13: no step, a callback that raised an error included, unregisters the
\* observer; the script stays ready to be delivered the queue, and a later
\* batch in which nothing raises is dispatched on whole and has each of its
\* images replaced by a configured source.
C13_SubscriptionSurvives ==
    /\ [][registered => registered']_vars
    /\ []C13_Later

\* after a callback that raised an error, the page has inserted an image
\* that a later callback has replaced
C13_Witness ==
    /\ RaisedIn("callback")
    /\ registered
    /\ last = "deliver"
    /\ threw = <<>>
    /\ \E n \in Range(writes) : n \notin frozen /\ Configured(n)

\* C14: every error raised, in the sweep or in a callback, has been caught.
C14_ErrorsCaught == \A k \in 1..Len(errors) : errors[k].caught

\* how many times x occurs in s
Count(s, x) == Cardinality({k \in 1..Len(s) : s[k] = x})

\* how many records of b carry n as an added node
Insertions(b, n) == Cardinality({k \in 1..Len(b) : n \in Range(b[k].addedNodes)})

\* C15: a callback on a batch in which no node was added twice replaces no
\* image twice.
C15_NoReprocessing ==
    (last = "deliver" /\ \A m \in Nodes : Insertions(batch, m) <= 1) =>
      \A n \in Images : Count(writes, n) <= 1

NoElement(nodes) ==
    /\ nodes # <<>>
    /\ \A k \in 1..Len(nodes) :
         ~IsImg(nodes[k]) /\ nodeType(nodes[k]) # ELEMENT_NODE

\* C16: a callback whose added nodes are neither images nor elements
\* replaces no image, changes no source and no source-set field, and raises
\* no error.
C16_NonElementNoOp ==
    [][(last' = "deliver" /\ NoElement(AddedNodes(batch'))) =>
          /\ writes' = <<>>
          /\ src' = src
          /\ srcset' = srcset
          /\ threw' = <<>>
          /\ errors' = errors]_vars

\* a text node was added to a page that holds an image, and delivered
C16_Witness ==
    /\ last = "deliver"
    /\ NoElement(AddedNodes(batch))
    /\ getElementsByTagName # <<>>

\* C17: the sweep ends, and when it has ended it has reached the images of
\* the document, each once, in document order.
C17_SweepOnce ==
    /\ [](pc = "observing" => visited = images)
    /\ [](last = "observe" => visited = getElementsByTagName)
    /\ [](\A n \in Images : Count(visited, n) <= 1)
    /\ <>(pc = "observing")

\* the sweep of a document of two images has ended
C17_Witness ==
    /\ last = "observe"
    /\ Len(visited) = 2
    /\ visited[1] # visited[2]

\* the added nodes of the child-list records of b and their descendants
AddedSubtrees(b) ==
    Range(AddedNodes(b)) \cup UNION {Range(Descendants(a)) : a \in Range(AddedNodes(b))}

\* C18: a callback leaves the source and the source set of every node
\* outside the added subtrees of its batch as they were.
C18_WritesInAddedSubtrees ==
    [][last' = "deliver" =>
          \A n \in Nodes \ AddedSubtrees(batch') :
            src'[n] = src[n] /\ srcset'[n] = srcset[n]]_vars

\* a callback has replaced an image in a page that holds another image
\* outside the added subtrees
C18_Witness ==
    /\ last = "deliver"
    /\ writes # <<>>
    /\ \E n \in Images : InBody(n) /\ n \notin AddedSubtrees(batch)

\* C19: once the sweep has raised an error the observer is not registered
\* and no callback runs; the images the sweep replaced before the error
\* have a configured source and every other image its original source,
\* whatever the page inserts later.
C19_FailedActivation ==
    RaisedIn("sweep") =>
      /\ ~registered
      /\ queue = <<>>
      /\ last # "deliver"
      /\ \A n \in Images :
           IF n \in Range(visited) \ frozen
           THEN Configured(n)
           ELSE src[n] = InitSrc(n)

\* the sweep raised an error; the page has then inserted an image the
\* sweep never saw, whose field can be assigned, and it has its original
\* source
C19_Witness ==
    /\ RaisedIn("sweep")
    /\ last = "appendChild"
    /\ \E n \in Images \ frozen :
         InBody(n) /\ n \notin Range(images) /\ src[n] = InitSrc(n)

\* C20: the dispatch of content.ts and the dispatch of part_000 hand the
\* same images, the same number of times, to the replacement for every node
\* a callback dispatches on.
C20_SameDispatch ==
    last = "deliver" =>
      \A k \in 1..Len(calls) : processNode(calls[k]) = callbackNode(calls[k])

====
